---- MODULE Spec2Model ----
(***************************************************************************)
(* IGCIntervalChecker.py: the logging-interval analysis of IGC flight      *)
(* logs, as the script executes it.                                        *)
(*                                                                         *)
(* The file binds analyze_igc_file, format_time, analyze_directory and     *)
(* main twice.  Run as a script, the guard at lines 229-230 calls main()   *)
(* with the first bindings (lines 16-227), and every path of main ends in  *)
(* sys.exit (lines 208, 212, 227): lines 232-420 are never executed.  The  *)
(* model is of the first bindings.                                         *)
(*                                                                         *)
(* Representation.  A line is a sequence of one-character strings.  A      *)
(* timedelta is its total number of seconds (an integer): equality,        *)
(* subtraction, total_seconds() and truth value of a timedelta are all     *)
(* functions of that total.  Intervals are integral floats, kept as        *)
(* integers; an average is the exact fraction [num, den]; the test         *)
(* stdev < 1.0 is made on the exact sample variance, which statistics.stdev*)
(* computes as a Fraction before its correctly rounded square root.        *)
(***************************************************************************)
EXTENDS Integers, Sequences, FiniteSets

VARIABLES
    fs,                     \* the directory: file name -> [lines, errAt]
    igc_files,              \* analyze_directory's list of file names
    idx,                    \* position of the for loop in igc_files (1-based)
    pc,                     \* "start", "loop" or "done"
    times,                  \* analyze_igc_file's local list, as its last call left it
    returned,               \* the tuples analyze_igc_file returned, one per call
    significant_variations, \* the list built for the last file (<<>> when not built)
    output                  \* what analyze_directory printed, one record per file

vars == <<fs, igc_files, idx, pc, times, returned, significant_variations, output>>

----------------------------------------------------------------------------
(* Bounds of the model. *)

MaxFiles == 3
MaxLines == 3
MaxPoints == 7

----------------------------------------------------------------------------
(* Characters and Python's string primitives. *)

Digits == {"0", "1", "2", "3", "4", "5", "6", "7", "8", "9"}

Whitespace == {" ", "\t"}

DigitChars == <<"0", "1", "2", "3", "4", "5", "6", "7", "8", "9">>

DigitValue(c) == CHOOSE n \in 0..9 : DigitChars[n + 1] = c

Min(a, b) == IF a < b THEN a ELSE b

Abs(a) == IF a < 0 THEN -a ELSE a

RECURSIVE lstrip(_)
lstrip(s) == IF s # <<>> /\ Head(s) \in Whitespace THEN lstrip(Tail(s)) ELSE s

RECURSIVE rstrip(_)
rstrip(s) == IF s # <<>> /\ s[Len(s)] \in Whitespace THEN rstrip(SubSeq(s, 1, Len(s) - 1)) ELSE s

\* str.strip(): leading and trailing whitespace removed (the line's newline too).
strip(s) == rstrip(lstrip(s))

\* s[a:b] of Python, 0 <= a <= b.
slice(s, a, b) == SubSeq(s, a + 1, Min(b, Len(s)))

startswith(s, c) == Len(s) >= 1 /\ s[1] = c

\* The value of a run of digits and underscores, read left to right.
RECURSIVE digits_value(_, _)
digits_value(s, acc) ==
    IF s = <<>> THEN acc
    ELSE IF Head(s) = "_" THEN digits_value(Tail(s), acc)
    ELSE digits_value(Tail(s), 10 * acc + DigitValue(Head(s)))

\* int(str) over ASCII: surrounding whitespace is ignored, one sign is
\* allowed, then digits with single underscores between them; anything else
\* is ValueError (ok = FALSE).
int(s) ==
    LET t == strip(s)
        signed == t # <<>> /\ Head(t) \in {"+", "-"}
        body == IF signed THEN Tail(t) ELSE t
        wellformed ==
            /\ body # <<>>
            /\ \A i \in 1..Len(body) : body[i] \in Digits \cup {"_"}
            /\ body[1] \in Digits
            /\ body[Len(body)] \in Digits
            /\ \A i \in 1..(Len(body) - 1) : ~(body[i] = "_" /\ body[i + 1] = "_")
    IN  IF wellformed
        THEN [ok |-> TRUE,
              val |-> IF signed /\ Head(t) = "-"
                      THEN 0 - digits_value(body, 0) ELSE digits_value(body, 0)]
        ELSE [ok |-> FALSE, val |-> 0]

\* timedelta(hours=h, minutes=m, seconds=s), as its total of seconds.
timedelta(h, m, s) == h * 3600 + m * 60 + s

\* None, and a returned timedelta.
None == [some |-> FALSE, seconds |-> 0]

Some(td) == [some |-> TRUE, seconds |-> td]

\* The truth value `if time:` tests: None is false, and so is timedelta(0).
truthy(time) == time.some /\ time.seconds # 0

----------------------------------------------------------------------------
(* parse_b_record_time and the read loop of analyze_igc_file. *)

parse_b_record_time(b_record) ==
    IF Len(b_record) < 7 THEN None
    ELSE LET hour == int(slice(b_record, 1, 3))
             minute == int(slice(b_record, 3, 5))
             second == int(slice(b_record, 5, 7))
         IN  IF hour.ok /\ minute.ok /\ second.ok
             THEN Some(timedelta(hour.val, minute.val, second.val))
             ELSE None

\* The body of `for line in f` (lines 78-82) for one line.
read_line(ts, rawline) ==
    LET line == strip(rawline)
    IN  IF startswith(line, "B")
        THEN LET time == parse_b_record_time(line)
             IN  IF truthy(time) THEN Append(ts, time.seconds) ELSE ts
        ELSE ts

\* The loop over the first n lines of the file.
RECURSIVE read_lines(_, _, _)
read_lines(ts, lines, n) ==
    IF n = 0 THEN ts
    ELSE read_line(read_lines(ts, lines, n - 1), lines[n])

\* A file raises on fetching line errAt (1 = the open, or the first read,
\* fails; Len(lines) + 1 = the failure comes at the end of the file);
\* errAt = 0 is a file that reads through.
read_fails(file) == file.errAt > 0

lines_read(file) == IF read_fails(file) THEN file.errAt - 1 ELSE Len(file.lines)

\* A variant: the list is not emptied between calls.
stale_times == times

\* times = [] (line 72).
fresh_times == <<>>

\* The local list `times` when the try statement is left.
times_of(file) == read_lines(fresh_times, file.lines, lines_read(file))

----------------------------------------------------------------------------
(* The interval list and the statistics of analyze_igc_file. *)

\* A variant: a delta of zero is retained.
positive_or_zero(diff) == diff >= 0

\* if diff > 0 (line 96).
positive(diff) == diff > 0

\* Lines 91-97, for i in range(1, n): Python's times[i-1], times[i] are ts[i], ts[i+1].
RECURSIVE intervals_upto(_, _)
intervals_upto(ts, n) ==
    IF n <= 1 THEN <<>>
    ELSE LET before == intervals_upto(ts, n - 1)
             diff == ts[n] - ts[n - 1]
         IN  IF positive(diff)
             THEN Append(before, [time1 |-> ts[n - 1], time2 |-> ts[n], interval |-> diff])
             ELSE before

interval_details_of(ts) == intervals_upto(ts, Len(ts))

RECURSIVE sum(_)
sum(xs) == IF xs = <<>> THEN 0 ELSE Head(xs) + sum(Tail(xs))

RECURSIVE sum_sq(_)
sum_sq(xs) == IF xs = <<>> THEN 0 ELSE Head(xs) * Head(xs) + sum_sq(Tail(xs))

RECURSIVE min(_)
min(xs) == IF Len(xs) = 1 THEN xs[1] ELSE Min(Head(xs), min(Tail(xs)))

RECURSIVE max(_)
max(xs) == IF Len(xs) = 1 THEN xs[1] ELSE LET m == max(Tail(xs)) IN IF Head(xs) > m THEN Head(xs) ELSE m

\* xs moved down by its minimum: the deviations from the mean, and so the
\* standard deviation, are those of xs.
shifted(xs) == [i \in 1..Len(xs) |-> xs[i] - min(xs)]

\* The square of statistics.stdev(xs), Len(xs) > 1, as the exact fraction
\* (n * sum(y^2) - sum(y)^2) / (n * (n - 1)) over y = shifted(xs).
variance(xs) ==
    LET ys == shifted(xs)
    IN  [num |-> Len(ys) * sum_sq(ys) - sum(ys) * sum(ys), den |-> Len(ys) * (Len(ys) - 1)]

\* Two values 2n or more apart put the sum of squared deviations at 2n^2 or
\* more, and the variance above 1: the squares are only taken below that.
spread_out(xs) == max(xs) - min(xs) >= 2 * Len(xs)

\* The threshold of line 114, in seconds.
FixedLimit == 1

\* A variant: a deviation of exactly 1.0 counts as fixed.
below_or_at_limit(xs) ==
    IF Len(xs) > 1
    THEN ~spread_out(xs) /\ variance(xs).num <= FixedLimit * FixedLimit * variance(xs).den
    ELSE TRUE

\* stdev = statistics.stdev(intervals) if len(intervals) > 1 else 0;
\* is_fixed_interval = stdev < 1.0 (lines 110-114).
below_limit(xs) ==
    IF Len(xs) > 1
    THEN ~spread_out(xs) /\ variance(xs).num < FixedLimit * FixedLimit * variance(xs).den
    ELSE TRUE

\* A variant: the records read before the failure are counted.
read_error_result_partial(ts) ==
    [is_fixed |-> FALSE, avg_interval |-> [num |-> 0, den |-> 1], min_interval |-> 0,
     max_interval |-> 0, total_points |-> Len(ts), interval_details |-> <<>>]

\* return False, 0, 0, 0, 0, [] (line 85); ts, the list read so far, is not used.
read_error_result(ts) ==
    [is_fixed |-> FALSE, avg_interval |-> [num |-> 0, den |-> 1], min_interval |-> 0,
     max_interval |-> 0, total_points |-> 0, interval_details |-> <<>>]

\* return False, 0, 0, 0, len(times), [] (lines 88 and 100).
no_interval_result(ts) ==
    [is_fixed |-> FALSE, avg_interval |-> [num |-> 0, den |-> 1], min_interval |-> 0,
     max_interval |-> 0, total_points |-> Len(ts), interval_details |-> <<>>]

\* intervals = [item[2] for item in interval_details] (line 103).
interval_values(interval_details) ==
    [i \in 1..Len(interval_details) |-> interval_details[i].interval]

\* Lines 105-116.
statistics(ts, interval_details, intervals) ==
    [is_fixed |-> below_limit(intervals),
     avg_interval |-> [num |-> sum(intervals), den |-> Len(intervals)],
     min_interval |-> min(intervals),
     max_interval |-> max(intervals),
     total_points |-> Len(ts),
     interval_details |-> interval_details]

\* Lines 87-116, from the list of times read and the interval list built from it.
result_of(ts, interval_details) ==
    IF Len(ts) < 2 THEN no_interval_result(ts)
    ELSE IF interval_details = <<>> THEN no_interval_result(ts)
    ELSE statistics(ts, interval_details, interval_values(interval_details))

analyze_igc_file(file) ==
    IF read_fails(file) THEN read_error_result(times_of(file))
    ELSE result_of(times_of(file), interval_details_of(times_of(file)))

----------------------------------------------------------------------------
(* analyze_directory. *)

\* The absolute limit of line 173, in seconds.
AbsoluteLimit == 5

\* How many changes are shown (lines 180, 185).
ShowLimit == 5

\* A variant: the baseline stays at the first interval.
exceeds_from_first(details, i) ==
    2 * Abs(details[i].interval - details[1].interval) > Min(details[1].interval, 2 * AbsoluteLimit)

\* change_threshold = min(prev_interval * 0.5, 5.0);
\* abs(interval - prev_interval) > change_threshold (lines 173-174), both
\* sides doubled.  prev_interval is the interval of the entry before (line 176).
exceeds(details, i) ==
    2 * Abs(details[i].interval - details[i - 1].interval)
        > Min(details[i - 1].interval, 2 * AbsoluteLimit)

\* A variant: the timestamps are taken from the list of times at the
\* interval's index, as lines 357-366 do.
variation_by_index(ts, details, i) ==
    [time1 |-> ts[i - 1], time2 |-> ts[i],
     prev |-> details[i - 1].interval, current |-> details[i].interval]

\* (time1, time2, prev_interval, interval) of line 175; ts is not used.
variation(ts, details, i) ==
    [time1 |-> details[i].time1, time2 |-> details[i].time2,
     prev |-> details[i - 1].interval, current |-> details[i].interval]

\* Lines 168-176, over interval_details[1:] up to Python index n - 1.
RECURSIVE variations_upto(_, _, _)
variations_upto(ts, details, n) ==
    IF n <= 1 THEN <<>>
    ELSE LET before == variations_upto(ts, details, n - 1)
         IN  IF exceeds(details, n) THEN Append(before, variation(ts, details, n)) ELSE before

\* The list of lines 166-176; <<>> where the code does not build it.
variations_of(ts, r) ==
    IF r.total_points >= 2 /\ ~r.is_fixed /\ Len(r.interval_details) > 2
    THEN variations_upto(ts, r.interval_details, Len(r.interval_details))
    ELSE <<>>

\* What lines 149-188 print for one file.
report(filename, r, variations) ==
    [file |-> filename,
     points |-> r.total_points,
     kind |-> IF r.total_points < 2 THEN "NotEnough"
              ELSE IF r.is_fixed THEN "FIXED" ELSE "VARIABLE",
     avg |-> IF r.total_points < 2 THEN [num |-> 0, den |-> 1] ELSE r.avg_interval,
     min |-> IF r.total_points >= 2 /\ ~r.is_fixed THEN r.min_interval ELSE 0,
     max |-> IF r.total_points >= 2 /\ ~r.is_fixed THEN r.max_interval ELSE 0,
     shown |-> SubSeq(variations, 1, Min(ShowLimit, Len(variations))),
     more |-> IF Len(variations) > ShowLimit THEN Len(variations) - ShowLimit ELSE 0]

\* One step of an insertion sort: x put into the sorted sequence s.
RECURSIVE insert(_, _)
insert(x, s) ==
    IF s = <<>> THEN <<x>>
    ELSE IF x <= Head(s) THEN <<x>> \o s
    ELSE <<Head(s)>> \o insert(x, Tail(s))

\* igc_files.sort() (line 140).  A name is modelled by its rank in the
\* code-point order list.sort() compares by.
RECURSIVE sorted(_)
sorted(names) == IF names = <<>> THEN <<>> ELSE insert(Head(names), sorted(Tail(names)))

\* Lines 133-140: nothing to do for an empty list, else sort and enter the loop.
Start ==
    /\ pc = "start"
    /\ igc_files' = sorted(igc_files)
    /\ pc' = IF igc_files = <<>> THEN "done" ELSE "loop"
    /\ UNCHANGED <<fs, idx, times, returned, significant_variations, output>>

\* Lines 149-188 for the tuple r returned for filename; ts is the list
\* analyze_igc_file built.
Reported(filename, ts, r) ==
    /\ times' = ts
    /\ returned' = Append(returned, r)
    /\ significant_variations' = variations_of(ts, r)
    /\ output' = Append(output, report(filename, r, variations_of(ts, r)))

\* One iteration of the loop of lines 142-188.
AnalyzeFile ==
    /\ pc = "loop"
    /\ idx <= Len(igc_files)
    /\ Reported(igc_files[idx], times_of(fs[igc_files[idx]]), analyze_igc_file(fs[igc_files[idx]]))
    /\ idx' = idx + 1
    /\ UNCHANGED <<fs, igc_files, pc>>

\* The loop is exhausted: analyze_directory returns.
Finish ==
    /\ pc = "loop"
    /\ idx > Len(igc_files)
    /\ pc' = "done"
    /\ UNCHANGED <<fs, igc_files, idx, times, returned, significant_variations, output>>

Next == Start \/ AnalyzeFile \/ Finish

----------------------------------------------------------------------------
(* Inputs. *)

L100000 == <<"B", "1", "0", "0", "0", "0", "0", "5", "2", "N">>

L100005 == <<"B", "1", "0", "0", "0", "0", "5", "5", "2", "N">>

L100012 == <<"B", "1", "0", "0", "0", "1", "2">>

L000000 == <<"B", "0", "0", "0", "0", "0", "0", "5", "2", "N">>

L000001 == <<"B", "0", "0", "0", "0", "0", "1">>

L235959 == <<"B", "2", "3", "5", "9", "5", "9">>

L256199 == <<"B", "2", "5", "6", "1", "9", "9">>

L100020 == <<"B", "1", "0", "0", "0", "2", "0", "5", "2", "N", " ">>

LShort == <<"B", "1", "0", "0", "0">>

LLetters == <<"B", "1", "0", "X", "0", "0", "0">>

LHeader == <<"H", "F", "D", "T", "E", "0", "1", "0", "1", "2", "5">>

LEmpty == <<>>

ParseLines ==
    {L100000, L100005, L100012, L100020, L000000, L000001, L235959, L256199,
     LShort, LLetters, LHeader, LEmpty}

RECURSIVE SeqsUpTo(_, _)
SeqsUpTo(S, n) ==
    IF n = 0 THEN {<<>>}
    ELSE LET shorter == SeqsUpTo(S, n - 1)
         IN  shorter \cup {Append(s, x) : s \in {t \in shorter : Len(t) = n - 1}, x \in S}

\* A position record of the time t seconds after midnight: BHHMMSS and a tail.
BRecord(t) ==
    <<"B",
      DigitChars[((t \div 3600) \div 10) + 1], DigitChars[((t \div 3600) % 10) + 1],
      DigitChars[(((t \div 60) % 60) \div 10) + 1], DigitChars[(((t \div 60) % 60) % 10) + 1],
      DigitChars[((t % 60) \div 10) + 1], DigitChars[((t % 60) % 10) + 1],
      "N", "A">>

StartTime == 10 * 3600

Deltas == {0, 5, 7, 20}

\* The sequences of n times of day that start at StartTime and step by Deltas.
RECURSIVE TimeSeqs(_)
TimeSeqs(n) ==
    IF n = 1 THEN {<<StartTime>>}
    ELSE {Append(s, s[Len(s)] + d) : s \in TimeSeqs(n - 1), d \in Deltas}

\* A series of eight records whose intervals alternate: six changes.
LongSeries ==
    <<StartTime, StartTime + 5, StartTime + 25, StartTime + 30, StartTime + 50,
      StartTime + 55, StartTime + 75, StartTime + 80>>

RecordsOf(ts) == [lines |-> [i \in 1..Len(ts) |-> BRecord(ts[i])], errAt |-> 0]

\* The files of the directory runs.
DirFiles ==
    {[lines |-> <<>>, errAt |-> 0],
     [lines |-> <<L100000>>, errAt |-> 0],
     [lines |-> <<L100000, L100005>>, errAt |-> 0],
     [lines |-> <<L100000, L100005, L100012>>, errAt |-> 0],
     [lines |-> <<L100000, L100005>>, errAt |-> 1],
     [lines |-> <<L100000, L100005, L100012>>, errAt |-> 4]}

Listings(n) == {p \in [1..n -> 1..n] : \A i, j \in 1..n : i # j => p[i] # p[j]}

InitRun ==
    /\ idx = 1
    /\ pc = "start"
    /\ times = <<>>
    /\ returned = <<>>
    /\ significant_variations = <<>>
    /\ output = <<>>

\* A directory of up to MaxFiles files, listed by os.listdir in any order.
Init ==
    /\ \E n \in 0..MaxFiles :
        /\ igc_files \in Listings(n)
        /\ fs \in [1..n -> DirFiles]
    /\ InitRun

Spec == Init /\ [][Next]_vars

\* One file of up to MaxLines lines, well-formed or not.
InitParse ==
    /\ igc_files = <<1>>
    /\ \E ls \in SeqsUpTo(ParseLines, MaxLines) : fs = <<[lines |-> ls, errAt |-> 0]>>
    /\ InitRun

SpecParse == InitParse /\ [][Next]_vars

\* One file of up to MaxPoints well-formed position records.
InitStats ==
    /\ igc_files = <<1>>
    /\ \E n \in 1..MaxPoints : \E ts \in TimeSeqs(n) \cup {LongSeries} : fs = <<RecordsOf(ts)>>
    /\ InitRun

SpecStats == InitStats /\ [][Next]_vars

\* The last tuple returned, and the file it is of.
Analyzed == returned # <<>>

last_result == returned[Len(returned)]

last_file == fs[igc_files[Len(returned)]]

TypeOK ==
    /\ pc \in {"start", "loop", "done"}
    /\ idx \in 1..(Len(igc_files) + 1)
    /\ Len(returned) = Len(output)
    /\ Len(returned) = idx - 1

----------------------------------------------------------------------------
(* The input format, as the specification of the program words it. *)

\* A position record: the tag B, then six ASCII digits at offsets 1-6.
IsPositionRecord(line) ==
    /\ Len(line) >= 7
    /\ line[1] = "B"
    /\ \A k \in 2..7 : line[k] \in Digits

FieldHour(line) == 10 * DigitValue(line[2]) + DigitValue(line[3])

FieldMinute(line) == 10 * DigitValue(line[4]) + DigitValue(line[5])

FieldSecond(line) == 10 * DigitValue(line[6]) + DigitValue(line[7])

FieldTime(line) == FieldHour(line) * 3600 + FieldMinute(line) * 60 + FieldSecond(line)

IsTimeOfDay(line) ==
    FieldHour(line) \in 0..23 /\ FieldMinute(line) \in 0..59 /\ FieldSecond(line) \in 0..59

PositionRecords(lines) == SelectSeq(lines, IsPositionRecord)

ExpectedTimes(lines) ==
    [i \in 1..Len(PositionRecords(lines)) |-> FieldTime(PositionRecords(lines)[i])]

\* The last file was read to its end.
ReadThrough == Analyzed /\ ~read_fails(last_file)

Intervals(r) == [i \in 1..Len(r.interval_details) |-> r.interval_details[i].interval]

InsufficientData(r, n) ==
    /\ ~r.is_fixed
    /\ r.avg_interval.num = 0
    /\ r.min_interval = 0
    /\ r.max_interval = 0
    /\ r.interval_details = <<>>
    /\ r.total_points = n

----------------------------------------------------------------------------
(* Claims on the extraction of timestamps, under SpecParse. *)

\* C1: the timestamp sequence holds exactly one timestamp for each line that
\* starts with B followed by six digits, in file order, and none for any
\* other line; total_points is the number of such lines, 000000 included.
C1_OneTimestampPerRecord ==
    ReadThrough =>
        /\ times = ExpectedTimes(last_file.lines)
        /\ last_result.total_points = Len(PositionRecords(last_file.lines))

\* The lines of the last file that gave a timestamp.
Kept(line) == startswith(strip(line), "B") /\ truthy(parse_b_record_time(strip(line)))

\* C7: every timestamp kept has 0 <= hour <= 23, 0 <= minute <= 59 and
\* 0 <= second <= 59; a record outside these ranges gives no timestamp.
C7_TimestampsInRange ==
    ReadThrough =>
        /\ \A k \in 1..Len(last_file.lines) :
              Kept(last_file.lines[k]) =>
                  LET line == strip(last_file.lines[k])
                  IN  /\ int(slice(line, 1, 3)).val \in 0..23
                      /\ int(slice(line, 3, 5)).val \in 0..59
                      /\ int(slice(line, 5, 7)).val \in 0..59
        /\ \A i \in 1..Len(times) : times[i] \in 0..86399

\* C5: a file with fewer than 2 valid position records gives the
\* insufficient-data result with total_points the number of valid records
\* (0 or 1), and the report says "Not enough points".
C5_InsufficientData ==
    (ReadThrough /\ Len(PositionRecords(last_file.lines)) < 2) =>
        /\ InsufficientData(last_result, Len(PositionRecords(last_file.lines)))
        /\ output[Len(output)].kind = "NotEnough"
        /\ output[Len(output)].points = Len(PositionRecords(last_file.lines))

\* The file is two or more well-formed position records, times of day
\* strictly increasing.
IncreasingRecords(lines) ==
    /\ Len(lines) >= 2
    /\ \A k \in 1..Len(lines) : IsPositionRecord(lines[k]) /\ IsTimeOfDay(lines[k])
    /\ \A k \in 1..(Len(lines) - 1) : FieldTime(lines[k]) < FieldTime(lines[k + 1])

\* C8: for two or more well-formed records with strictly increasing times,
\* average = sum(intervals) / len(intervals), minimum <= every interval <=
\* maximum, minimum and maximum are intervals of the list, and total_points
\* = number of timestamps = number of intervals + 1.
C8_Statistics ==
    (ReadThrough /\ IncreasingRecords(last_file.lines)) =>
        LET r == last_result
            I == Intervals(r)
        IN  /\ I # <<>>
            /\ r.avg_interval.num * Len(I) = sum(I) * r.avg_interval.den
            /\ \A i \in 1..Len(I) : r.min_interval <= I[i] /\ I[i] <= r.max_interval
            /\ \E i \in 1..Len(I) : I[i] = r.min_interval
            /\ \E i \in 1..Len(I) : I[i] = r.max_interval
            /\ r.total_points = Len(last_file.lines)
            /\ r.total_points = Len(I) + 1

\* The deltas of a timestamp sequence, and those above zero.
DeltasOf(ts) == [i \in 1..(Len(ts) - 1) |-> ts[i + 1] - ts[i]]

AboveZero(d) == d > 0

PositiveDeltas(ts) == SelectSeq(DeltasOf(ts), AboveZero)

\* C2: for a timestamp sequence of n >= 2, the interval list is the deltas
\* t[i] - t[i-1] that are > 0, in order: n - 1 - (number of non-positive
\* deltas) of them; a non-positive delta is dropped, not corrected.
C2_PositiveDeltasRetained ==
    (ReadThrough /\ Len(times) >= 2) =>
        LET D == DeltasOf(times)
            I == Intervals(last_result)
        IN  /\ I = PositiveDeltas(times)
            /\ Len(I) = Len(times) - 1 - Cardinality({i \in 1..Len(D) : D[i] <= 0})
            /\ \A i \in 1..Len(I) : I[i] > 0

\* 10:00:00, 23:59:59, 00:00:01: only the interval before the rollover is
\* retained.
C2_Witness ==
    /\ ReadThrough
    /\ times = <<36000, 86399, 1>>
    /\ Intervals(last_result) = <<50399>>

----------------------------------------------------------------------------
(* Claims on the statistics and the significant changes, under SpecStats. *)

\* The sample standard deviation (divisor n - 1) of I is below 1, taken as 0
\* for fewer than 2 values: sum((n * x - S)^2) < n^2 * (n - 1), S = sum(I).
RECURSIVE SquaredDeviations(_, _, _)
SquaredDeviations(I, n, S) ==
    IF I = <<>> THEN 0
    ELSE (n * Head(I) - S) * (n * Head(I) - S) + SquaredDeviations(Tail(I), n, S)

DeviationBelowOne(I) ==
    Len(I) < 2 \/ SquaredDeviations(I, Len(I), sum(I)) < Len(I) * Len(I) * (Len(I) - 1)

\* C3 as stated: with at least 2 timestamps, is_fixed_interval is true if and
\* only if the sample standard deviation of the retained intervals, 0 for
\* fewer than 2 of them, is below 1.0.
C3_FixedIffDeviationBelowOne ==
    (ReadThrough /\ Len(times) >= 2) =>
        (last_result.is_fixed <=> DeviationBelowOne(PositiveDeltas(times)))

\* C3 as amended: with at least 2 timestamps and at least one retained
\* interval, is_fixed_interval is true if and only if the sample standard
\* deviation (0 for a single interval) is below 1.0; with no retained
\* interval is_fixed_interval is false.
C3_FixedIffDeviationBelowOne_Amended ==
    (ReadThrough /\ Len(times) >= 2) =>
        IF PositiveDeltas(times) = <<>>
        THEN ~last_result.is_fixed
        ELSE last_result.is_fixed <=> DeviationBelowOne(PositiveDeltas(times))

\* Intervals 5, 5, 5, 5: fixed, average 5.
C3_Witness ==
    /\ ReadThrough
    /\ Intervals(last_result) = <<5, 5, 5, 5>>
    /\ last_result.is_fixed
    /\ last_result.avg_interval.num = 5 * last_result.avg_interval.den

\* The positions of I whose interval differs from the one before by more
\* than half of it, or by more than 5 seconds: more than the lesser of both.
Flagged(I) ==
    {i \in 2..Len(I) :
        \/ 2 * Abs(I[i] - I[i - 1]) > I[i - 1]
        \/ Abs(I[i] - I[i - 1]) > 5}

\* C4: for a variable file with at least 3 retained intervals, the list of
\* significant changes has, in order, exactly one entry for each position i
\* with |I[i] - I[i-1]| > min(I[i-1] * 0.5, 5.0), each compared against the
\* interval just before; the whole list is built, the first 5 are shown.
C4_SignificantChanges ==
    (ReadThrough /\ ~last_result.is_fixed /\ Len(Intervals(last_result)) >= 3) =>
        LET I == Intervals(last_result)
            F == Flagged(I)
            shown == output[Len(output)].shown
        IN  /\ Len(significant_variations) = Cardinality(F)
            /\ \A i \in F :
                  LET k == Cardinality({j \in F : j <= i})
                  IN  /\ significant_variations[k].prev = I[i - 1]
                      /\ significant_variations[k].current = I[i]
            /\ Len(shown) = Min(5, Cardinality(F))
            /\ \A k \in 1..Len(shown) : shown[k] = significant_variations[k]
            /\ output[Len(output)].more = Cardinality(F) - Len(shown)

\* Intervals 5, 5, 5, 20, 5, 5: two entries, into the 20 and out of it.
C4_Witness ==
    /\ ReadThrough
    /\ Intervals(last_result) = <<5, 5, 5, 20, 5, 5>>
    /\ ~last_result.is_fixed
    /\ Len(significant_variations) = 2
    /\ significant_variations[1].prev = 5 /\ significant_variations[1].current = 20
    /\ significant_variations[2].prev = 20 /\ significant_variations[2].current = 5

\* C10: every significant-change entry carries the two adjacent timestamps
\* that produced its current interval (time2 - time1 = current), and prev is
\* the retained interval just before current in the interval list, also when
\* non-positive deltas were dropped between them.
C10_EntriesConsistent ==
    ReadThrough =>
        \A n \in 1..Len(significant_variations) :
            LET e == significant_variations[n]
                details == last_result.interval_details
            IN  /\ e.time2 - e.time1 = e.current
                /\ \E k \in 1..(Len(times) - 1) : times[k] = e.time1 /\ times[k + 1] = e.time2
                /\ \E j \in 2..Len(details) :
                      /\ details[j].time1 = e.time1
                      /\ details[j].time2 = e.time2
                      /\ details[j].interval = e.current
                      /\ details[j - 1].interval = e.prev

\* An entry is recorded for a file in which a repeated timestamp was dropped
\* between the entry's two intervals.
C10_Witness ==
    /\ ReadThrough
    /\ Len(times) >= 5
    /\ times[2] - times[1] = 5
    /\ times[3] = times[2]
    /\ times[4] - times[3] = 20
    /\ Len(significant_variations) >= 1
    /\ significant_variations[1].time1 = times[3]
    /\ significant_variations[1].time2 = times[4]
    /\ significant_variations[1].prev = 5

----------------------------------------------------------------------------
(* Claims on the run over a directory, under Spec. *)

\* The names in ascending order.
Ascending(names) == \A i \in 1..(Len(names) - 1) : names[i] < names[i + 1]

\* C6: a failure to open or read a file becomes the zero-data result for
\* that file (total_points 0, empty interval list), and every file of the
\* list is analyzed and reported, in sorted name order, before the run ends.
C6_ReadFailureIsNotFatal ==
    /\ \A i \in 1..Len(returned) :
          read_fails(fs[igc_files[i]]) =>
              /\ InsufficientData(returned[i], 0)
              /\ output[i].kind = "NotEnough"
              /\ output[i].points = 0
    /\ pc # "start" => Ascending(igc_files)
    /\ \A i \in 1..Len(output) : output[i].file = igc_files[i]
    /\ pc = "done" =>
          /\ Len(output) = Len(igc_files)
          /\ \A f \in DOMAIN fs : \E i \in 1..Len(output) : output[i].file = f

\* A run has ended in which the first file failed after its records were
\* read and the files after it were reported with their statistics.
C6_Witness ==
    /\ pc = "done"
    /\ Len(output) = 3
    /\ fs[1].errAt = 4
    /\ output[1].kind = "NotEnough"
    /\ output[2].kind = "FIXED"
    /\ output[3].kind = "VARIABLE"

====
